---- MODULE Spec2Model ----
(***************************************************************************)
(* Stock-deduction engine of SomPOS: batches, the denormalised Stock row,  *)
(* Stock.sell / ProductBatch.sell, the inventory endpoints that touch      *)
(* them, and Transaction.process_sale.                                     *)
(*                                                                         *)
(* Quantities are integers counting 0.00001 of a unit ("points"): the      *)
(* DecimalFields keep 4 places, and requests are given one more digit so   *)
(* that quantize() to 4 places is an observable conversion.                *)
(***************************************************************************)
EXTENDS Integers, Sequences, FiniteSets, TLC

\* ------------------------------------------------------------------------
\* Bounds of the model
\* ------------------------------------------------------------------------
MaxBatches == 2      \* batches of one product stored at the same time
MaxTxns == 1         \* sale transactions created in one behaviour
MaxBillings == 2     \* times a failing sale is let bill one customer's debt

\* ------------------------------------------------------------------------
\* Decimal arithmetic
\* ------------------------------------------------------------------------
Digits == 5          \* decimal digits of a request value in the model
Places == 4          \* decimal_places of ProductBatch.quantity / Stock.quantity

RECURSIVE Pow10(_)
Pow10(n) == IF n = 0 THEN 1 ELSE 10 * Pow10(n - 1)

One == Pow10(Digits)                 \* the quantity 1
Half == One \div 2                   \* the quantity 0.5
Step(places) == Pow10(Digits - places)   \* 10^-places, in points

Abs(x) == IF x < 0 THEN 0 - x ELSE x
Sign(x) == IF x < 0 THEN 0 - 1 ELSE 1
Min(a, b) == IF a < b THEN a ELSE b

\* Decimal.quantize(10^-places, rounding=ROUND_HALF_UP): ties away from zero
QuantizeHalfUp(x, places) ==
    LET m == Step(places)
        q == Abs(x) \div m
        r == Abs(x) % m
    IN  Sign(x) * m * (IF 2 * r >= m THEN q + 1 ELSE q)

\* Decimal.quantize(10^-places) with the default context: ROUND_HALF_EVEN
QuantizeHalfEven(x, places) ==
    LET m == Step(places)
        q == Abs(x) \div m
        r == Abs(x) % m
        up == (2 * r > m) \/ (2 * r = m /\ q % 2 = 1)
    IN  Sign(x) * m * (IF up THEN q + 1 ELSE q)

\* Decimal.is_integer()
IsInteger(x) == x % One = 0

\* ------------------------------------------------------------------------
\* Data
\* ------------------------------------------------------------------------
Products == {"p1", "p2"}
Customers == {"c1"}
NoCustomer == "none"
UnitChoices == {0, 2}         \* decimal_places of the units in use (pcs, default)
NullDate == 0 - 1             \* expiration_date IS NULL
Today == 1
ExpDates == {NullDate, Today, Today + 1}

\* request values offered to the operations
SellRequests == {0 - Half, 0, 4, One, 5 * Half, 3 * One}
BatchRequests == {0, One, 5 * Half}
BatchSellRequests == {Half, One}
AdjustRequests == {0 - One, 5 * Half}
UpdateRequests == {0, (4 * One) \div 10}
EndpointRequests == {0, One, 5 * Half}

VARIABLES
    unitDp,      \* product -> Unit.decimal_places of the product's unit
    products,    \* product -> whether the Product row exists, and the number
                 \* of Stock rows that refer to it
    batches,     \* product -> ProductBatch rows of the product, in created_at order
    stock,       \* product -> Stock.quantity
    customers,   \* customer -> [debt, total_spent, loyalty_points]
    txns,        \* Transaction rows with their items, in creation order
    reqs,        \* concurrent sell requests: position and locals of each
    last         \* the operation completed last and its outcome

vars == <<unitDp, products, batches, stock, customers, txns, reqs, last>>

\* ------------------------------------------------------------------------
\* Batch ledger helpers
\* ------------------------------------------------------------------------
RECURSIVE SumQty(_)
SumQty(bs) == IF bs = <<>> THEN 0 ELSE Head(bs).quantity + SumQty(Tail(bs))

RemoveAt(s, i) == [k \in 1 .. (Len(s) - 1) |-> IF k < i THEN s[k] ELSE s[k + 1]]

\* NULL placement of ORDER BY expiration_date ASC
NullsLast == TRUE

ExpLess(a, b) ==
    IF a = NullDate THEN (~NullsLast /\ b # NullDate)
    ELSE IF b = NullDate THEN NullsLast
    ELSE a < b

\* row i comes before row j under order_by('expiration_date', 'created_at')
Before(bs, i, j) ==
    \/ ExpLess(bs[i].expiration_date, bs[j].expiration_date)
    \/ (bs[i].expiration_date = bs[j].expiration_date /\ i < j)

\* the indices of bs in the order the queryset yields the rows
FifoOrder(bs) ==
    [k \in 1 .. Len(bs) |->
        CHOOSE i \in 1 .. Len(bs) :
            Cardinality({j \in 1 .. Len(bs) : Before(bs, j, i)}) = k - 1]

UpdateQuantityWhole(bs) == QuantizeHalfUp(SumQty(bs), 0)

\* Stock.update_quantity: the value stored for a product with batches bs
UpdateQuantity(bs) == QuantizeHalfUp(SumQty(bs), Places)

\* last: op, the product, the request value, the quantity after the
\* operation's own normalisation, the error raised ("ok" when none), and the
\* calls of ProductBatch.sell made (index in the batches before the call);
\* for Stock.sell and ProductBatch.sell also the quantity that the Stock or
\* the batch held when the call started
NoOp == [op |-> "none", product |-> "p1", request |-> 0, quantity |-> 0,
         outcome |-> "ok", sold |-> <<>>, cached |-> 0]

Done(o, p, req, q, out, log) ==
    [op |-> o, product |-> p, request |-> req, quantity |-> q, outcome |-> out,
     sold |-> log, cached |-> 0]

\* ------------------------------------------------------------------------
\* ProductBatch.sell and Stock.sell
\* ------------------------------------------------------------------------
BatchSellErrorUnchecked(dp, bq, q) ==
    IF dp = 0 /\ ~IsInteger(q) THEN "FractionalQuantityNotAllowed" ELSE "ok"

\* the checks of ProductBatch.sell for an amount q against a row holding bq
BatchSellError(dp, bq, q) ==
    IF dp = 0 /\ ~IsInteger(q) THEN "FractionalQuantityNotAllowed"
    ELSE IF q > bq THEN "InsufficientBatchStock"
    ELSE "ok"

\* ProductBatch.sell deletes the row when the refreshed quantity is zero
BatchDeleted(remainder) == remainder = 0

\* sell_amount of one iteration of the loop in Stock.sell
SellAmount(remaining, bq) == Min(remaining, bq)

\* The for loop of Stock.sell over the rows ord (indices into bs, in queryset
\* order).  acc collects the quantity left in each row, the rows deleted,
\* the calls of batch.sell made, and the error that ended the loop.
RECURSIVE Walk(_, _, _, _, _)
Walk(dp, bs, ord, remaining, acc) ==
    IF ord = <<>> \/ remaining <= 0 THEN acc
    ELSE LET i == Head(ord)
             sell_amount == SellAmount(remaining, bs[i].quantity)
             err == BatchSellError(dp, bs[i].quantity, sell_amount)
             left == bs[i].quantity - sell_amount
         IN  IF err # "ok" THEN [acc EXCEPT !.error = err]
             ELSE Walk(dp, bs, Tail(ord), remaining - sell_amount,
                       [acc EXCEPT
                          !.qty[i] = left,
                          !.gone = IF BatchDeleted(left) THEN @ \cup {i} ELSE @,
                          !.log = Append(@, [index |-> i, amount |-> sell_amount,
                                             deleted |-> BatchDeleted(left),
                                             expiration_date |-> bs[i].expiration_date])])

WalkStart(bs) ==
    [qty |-> [i \in 1 .. Len(bs) |-> bs[i].quantity], gone |-> {},
     log |-> <<>>, error |-> "ok"]

\* the rows left after a walk, still in created_at order
RECURSIVE KeepRows(_, _, _)
KeepRows(bs, acc, i) ==
    IF i > Len(bs) THEN <<>>
    ELSE (IF i \in acc.gone THEN <<>>
          ELSE <<[bs[i] EXCEPT !.quantity = acc.qty[i]]>>)
         \o KeepRows(bs, acc, i + 1)

SellOrderByCreation(bs) == [k \in 1 .. Len(bs) |-> k]

\* the order Stock.sell walks the batches in
SellOrder(bs) == FifoOrder(bs)

SellRefreshSubtract(bs, stk, quantity) == stk - quantity

\* the value Stock.sell stores at its end
SellRefresh(bs, stk, quantity) == UpdateQuantity(bs)

InsufficientReversed(stk, quantity) == quantity < stk

\* the availability check of Stock.sell
Insufficient(stk, quantity) == stk < quantity

NonPositiveStrict(quantity) == quantity < 0

\* the positivity check of Stock.sell
NonPositive(quantity) == quantity <= 0

\* Stock.sell(quantity) for a product of unit precision dp, with batches bs
\* and Stock.quantity stk, run without an enclosing atomic block: what is
\* raised and what the database holds afterwards.
StockSellResult(dp, bs, stk, raw) ==
    LET quantity == QuantizeHalfUp(raw, Places)
        same(out) == [outcome |-> out, batches |-> bs, stock |-> stk,
                      quantity |-> quantity, sold |-> <<>>]
    IN  IF dp = 0 /\ ~IsInteger(quantity) THEN same("FractionalQuantityNotAllowed")
        ELSE IF NonPositive(quantity) THEN same("InvalidQuantity")
        ELSE IF Insufficient(stk, quantity) THEN same("InsufficientStock")
        ELSE LET acc == Walk(dp, bs, SellOrder(bs), quantity, WalkStart(bs))
                 rows == KeepRows(bs, acc, 1)
             IN  [outcome |-> acc.error,
                  batches |-> rows,
                  stock |-> IF acc.error = "ok" THEN SellRefresh(rows, stk, quantity)
                            ELSE IF acc.log # <<>> THEN UpdateQuantity(rows)
                            ELSE stk,
                  quantity |-> quantity,
                  sold |-> acc.log]

\* ------------------------------------------------------------------------
\* Inventory operations
\* ------------------------------------------------------------------------
InvProducts == {"p1"}     \* the product the inventory specification works on

UNCHANGED_sales == UNCHANGED <<unitDp, products, customers, txns, reqs>>

\* Stock.sell called on the model (as process_sale does), no atomic block
StockSell(p, raw) ==
    LET r == StockSellResult(unitDp[p], batches[p], stock[p], raw)
    IN  /\ batches' = [batches EXCEPT ![p] = r.batches]
        /\ stock' = [stock EXCEPT ![p] = r.stock]
        /\ last' = [Done("Stock.sell", p, raw, r.quantity, r.outcome, r.sold)
                        EXCEPT !.cached = stock[p]]
        /\ UNCHANGED_sales

\* quantity parsed by ProductViewSet.sell
EndpointQuantity(raw, dp) == QuantizeHalfEven(raw, dp)

\* ProductViewSet.sell: POST products/{id}/sell/
SellEndpoint(p, raw) ==
    LET quantity == EndpointQuantity(raw, unitDp[p])
        r == StockSellResult(unitDp[p], batches[p], stock[p], quantity)
    IN  IF quantity <= 0
        THEN /\ last' = Done("products.sell", p, raw, quantity, "InvalidQuantity", <<>>)
             /\ UNCHANGED <<batches, stock>>
             /\ UNCHANGED_sales
        ELSE IF r.outcome # "ok"
        THEN /\ last' = Done("products.sell", p, raw, quantity, r.outcome, <<>>)
             /\ UNCHANGED <<batches, stock>>
             /\ UNCHANGED_sales
        ELSE /\ batches' = [batches EXCEPT ![p] = r.batches]
             /\ stock' = [stock EXCEPT ![p] = r.stock]
             /\ last' = Done("products.sell", p, raw, quantity, "ok", r.sold)
             /\ UNCHANGED_sales

\* ProductBatch.sell called on row i of product p
BatchSell(p, i, q) ==
    LET bq == batches[p][i].quantity
        err == BatchSellError(unitDp[p], bq, q)
        sold == [batches[p] EXCEPT ![i].quantity = bq - q]
    IN  IF err # "ok"
        THEN /\ last' = [Done("ProductBatch.sell", p, q, q, err, <<>>)
                             EXCEPT !.cached = bq]
             /\ UNCHANGED <<batches, stock>>
             /\ UNCHANGED_sales
        ELSE /\ batches' = [batches EXCEPT ![p] =
                               IF BatchDeleted(bq - q) THEN RemoveAt(sold, i) ELSE sold]
             /\ stock' = [stock EXCEPT ![p] = UpdateQuantity(sold)]
             /\ last' = [Done("ProductBatch.sell", p, q, q, "ok",
                             <<[index |-> i, amount |-> q, deleted |-> BatchDeleted(bq - q),
                               expiration_date |-> batches[p][i].expiration_date]>>)
                             EXCEPT !.cached = bq]
             /\ UNCHANGED_sales

\* field and validate_quantity checks of ProductBatchSerializer
BatchQuantityValid(q) == q >= Step(Places) /\ q > 0

AddBatchMerged(bs, q, exp) ==
    IF \E i \in 1 .. Len(bs) : bs[i].expiration_date = exp
    THEN LET i == CHOOSE k \in 1 .. Len(bs) : bs[k].expiration_date = exp
         IN  [bs EXCEPT ![i].quantity = @ + q]
    ELSE Append(bs, [quantity |-> q, expiration_date |-> exp])

\* serializer.save() of a valid new batch: one more row
AddBatch(bs, q, exp) ==
    Append(bs, [quantity |-> q, expiration_date |-> exp])

\* ProductBatchViewSet.create: POST batches/
BatchCreate(p, q, exp) ==
    /\ Len(batches[p]) < MaxBatches
    /\ IF ~BatchQuantityValid(q)
       THEN /\ last' = Done("batches.create", p, q, q, "InvalidQuantity", <<>>)
            /\ UNCHANGED <<batches, stock>>
       ELSE IF exp # NullDate /\ exp < Today
       THEN /\ last' = Done("batches.create", p, q, q, "ExpiredProduct", <<>>)
            /\ UNCHANGED <<batches, stock>>
       ELSE LET rows == AddBatch(batches[p], q, exp)
            IN  /\ batches' = [batches EXCEPT ![p] = rows]
                /\ stock' = [stock EXCEPT ![p] = UpdateQuantity(rows)]
                /\ last' = Done("batches.create", p, q, q, "ok", <<>>)
    /\ UNCHANGED_sales

\* ProductBatchViewSet.update with a new quantity: PUT/PATCH batches/{id}/
BatchUpdate(p, i, q) ==
    /\ IF ~BatchQuantityValid(q)
       THEN /\ last' = Done("batches.update", p, 0, 0, "InvalidQuantity", <<>>)
            /\ UNCHANGED <<batches, stock>>
       ELSE LET value == QuantizeHalfUp(q, unitDp[p])
                rows == [batches[p] EXCEPT ![i].quantity = value]
            IN  /\ batches' = [batches EXCEPT ![p] = rows]
                /\ stock' = [stock EXCEPT ![p] = UpdateQuantity(rows)]
                /\ last' = Done("batches.update", p, 0, 0, "ok", <<>>)
    /\ UNCHANGED_sales

\* ProductBatchViewSet.destroy: DELETE batches/{id}/ (no signal is connected)
BatchDelete(p, i) ==
    /\ batches' = [batches EXCEPT ![p] = RemoveAt(batches[p], i)]
    /\ UNCHANGED stock
    /\ last' = Done("batches.destroy", p, 0, 0, "ok", <<>>)
    /\ UNCHANGED_sales

\* one adjustment of StockViewSet.adjust / bulk_adjust: the error raised, or
\* the quantity stored
AdjustValue(raw, dp) == QuantizeHalfEven(raw, dp)

AdjustError(raw, dp) ==
    IF AdjustValue(raw, dp) < 0 THEN "InvalidQuantity"
    ELSE IF dp = 0 /\ ~IsInteger(AdjustValue(raw, dp)) THEN "FractionalQuantityNotAllowed"
    ELSE "ok"

\* StockViewSet.adjust: POST stock/{id}/adjust/
StockAdjust(p, raw) ==
    /\ IF AdjustError(raw, unitDp[p]) # "ok"
       THEN UNCHANGED stock
       ELSE stock' = [stock EXCEPT ![p] = AdjustValue(raw, unitDp[p])]
    /\ last' = Done("stock.adjust", p, 0, 0,
                    AdjustError(raw, unitDp[p]), <<>>)
    /\ UNCHANGED batches
    /\ UNCHANGED_sales

\* the Stock table after the adjustments adj have been applied in order
RECURSIVE BulkApply(_, _, _)
BulkApply(stk, dps, adj) ==
    IF adj = <<>> THEN stk
    ELSE LET a == Head(adj)
         IN  BulkApply(IF AdjustError(a.quantity, dps[a.product]) = "ok"
                       THEN [stk EXCEPT ![a.product] = AdjustValue(a.quantity, dps[a.product])]
                       ELSE stk,
                       dps, Tail(adj))

\* StockViewSet.bulk_adjust: POST stock/bulk_adjust/
BulkAdjust(adj) ==
    /\ adj # <<>>
    /\ stock' = BulkApply(stock, unitDp, adj)
    /\ last' = Done("stock.bulk_adjust", adj[1].product, 0, 0, "ok", <<>>)
    /\ UNCHANGED batches
    /\ UNCHANGED_sales

\* Stock.update_quantity called for a product
Recompute(p) ==
    /\ stock' = [stock EXCEPT ![p] = UpdateQuantity(batches[p])]
    /\ last' = Done("Stock.update_quantity", p, 0, 0, "ok", <<>>)
    /\ UNCHANGED batches
    /\ UNCHANGED_sales

\* barcodes, and the NULL of Product.barcode
Barcodes == {1, 2}
NoBarcode == 0

\* every product has been created and has its Stock row; the barcodes differ
\* (Product.barcode is unique)
AllCreated ==
    [p \in Products |->
        [created |-> TRUE, stocks |-> 1, barcode |-> IF p = "p1" THEN 1 ELSE 2]]

InitData ==
    /\ customers = [c \in Customers |-> [debt |-> 0, total_spent |-> 0, loyalty_points |-> 0]]
    /\ txns = <<>>
    /\ reqs = <<>>
    /\ last = NoOp

\* every product has just been created: its Stock row holds 0, no batches
Init ==
    /\ unitDp \in {[p \in Products |-> IF p = "p1" THEN d ELSE 2] : d \in UnitChoices}
    /\ products = AllCreated
    /\ batches = [p \in Products |-> <<>>]
    /\ stock = [p \in Products |-> 0]
    /\ InitData

Adjustments ==
    {<<[product |-> p, quantity |-> q]>> : p \in InvProducts, q \in AdjustRequests}
    \cup {<<[product |-> p, quantity |-> q1], [product |-> p, quantity |-> q2]>> :
             p \in InvProducts, q1 \in {5 * Half}, q2 \in {0 - One}}

Next ==
    \/ \E p \in InvProducts, raw \in SellRequests : StockSell(p, raw)
    \/ \E p \in InvProducts, raw \in EndpointRequests : SellEndpoint(p, raw)
    \/ \E p \in InvProducts : \E i \in 1 .. Len(batches[p]), q \in BatchSellRequests :
           BatchSell(p, i, q)
    \/ \E p \in InvProducts, q \in BatchRequests, exp \in ExpDates \cup {0} :
           BatchCreate(p, q, exp)
    \/ \E p \in InvProducts : \E i \in 1 .. Len(batches[p]), q \in BatchRequests :
           BatchUpdate(p, i, q)
    \/ \E p \in InvProducts : \E i \in 1 .. Len(batches[p]) : BatchDelete(p, i)
    \/ \E p \in InvProducts, raw \in AdjustRequests : StockAdjust(p, raw)
    \/ \E adj \in Adjustments : BulkAdjust(adj)
    \/ \E p \in InvProducts : Recompute(p)

Spec == Init /\ [][Next]_vars

TypeOK ==
    /\ \A p \in Products : stock[p] \in Int /\ Len(batches[p]) <= MaxBatches

\* ------------------------------------------------------------------------
\* The batch resource with quantities below one unit (specification
\* SpecBatch): batches are created, their quantity is edited, and they are
\* sold from, one by one or through Stock.sell.
\* ------------------------------------------------------------------------
\* quantities asked of Stock.sell: 0.004, 0.005, 1 and 2 (the two small ones
\* are asked while Stock.quantity is whole, which keeps the quantities apart
\* from one another finite in number)
FineSellRequests == {(4 * One) \div 1000, (5 * One) \div 1000, One, 2 * One}

NextBatch ==
    \/ \E p \in InvProducts, q \in {One}, exp \in {NullDate, Today} :
           BatchCreate(p, q, exp)
    \/ \E p \in InvProducts : \E i \in 1 .. Len(batches[p]), q \in UpdateRequests :
           BatchUpdate(p, i, q)
    \/ \E p \in InvProducts :
           \E i \in 1 .. Len(batches[p]), q \in BatchSellRequests \cup {3 * Half} :
               BatchSell(p, i, q)
    \/ \E p \in InvProducts, raw \in FineSellRequests :
           (raw < One => IsInteger(stock[p])) /\ StockSell(p, raw)
    \/ \E p \in InvProducts : Recompute(p)

SpecBatch == Init /\ [][NextBatch]_vars

\* ------------------------------------------------------------------------
\* Products and their Stock row (specification SpecProduct)
\* ------------------------------------------------------------------------
StockRowsCreatedAlways(created, has_stock) == 1

\* create_product_stock, the post_save receiver of Product: the number of
\* Stock rows it creates
StockRowsCreated(created, has_stock) == IF created /\ ~has_stock THEN 1 ELSE 0

\* a Product row after one save() of the model and its post_save signal
AfterPostSave(prod, created) ==
    [prod EXCEPT !.created = TRUE,
                 !.stocks = @ + StockRowsCreated(created, @ > 0)]

NoProduct == [created |-> FALSE, stocks |-> 0, barcode |-> NoBarcode]

\* the barcodes that products hold
UsedBarcodes == {products[p].barcode : p \in {x \in Products : products[x].created}}

\* Product.generate_unique_barcode: the number of attempts of the loop
max_attempts == 100

\* the attempt at which the loop may return
Attempts == {1, 2, max_attempts}

\* the UUID branch of generate_unique_barcode returns its barcode unchecked
Fallback(used) == Barcodes

\* Product.generate_unique_barcode for the barcodes in use: what it may
\* return, with the number of uniqueness checks made.  Every attempt draws a
\* barcode at random and returns it when no product holds it; an attempt
\* after the first is reached only over barcodes that are in use; after
\* max_attempts such draws the first digits of a UUID are returned.
GenerateUniqueBarcode(used) ==
    {[barcode |-> b, checks |-> k, fallback |-> FALSE] :
        b \in Barcodes \ used, k \in {a \in Attempts : a = 1 \/ used # {}}}
    \cup
    {[barcode |-> b, checks |-> max_attempts, fallback |-> TRUE] :
        b \in IF used # {} THEN Fallback(used) ELSE {}}

\* the INSERT of a Product: barcode is a unique column
InsertError(barcode, used) == IF barcode \in used THEN "IntegrityError" ELSE "ok"

\* the row of a new product with its barcode, after Product.save
NewProduct(barcode) ==
    [AfterPostSave(AfterPostSave(NoProduct, TRUE), FALSE) EXCEPT !.barcode = barcode]

\* Product.save of a new product without a barcode: the barcode is generated,
\* the row is inserted (post_save with created=True), and generate_label
\* saves the label field (post_save with created=False).  The new Stock row
\* holds the default quantity.  The descriptor records the number of
\* uniqueness checks as the request and the generated barcode as the quantity.
ProductCreate(p) ==
    /\ ~products[p].created
    /\ \E g \in GenerateUniqueBarcode(UsedBarcodes) :
          IF InsertError(g.barcode, UsedBarcodes) # "ok"
          THEN /\ last' = Done("Product.create", p, g.checks, g.barcode,
                               InsertError(g.barcode, UsedBarcodes), <<>>)
               /\ UNCHANGED <<products, stock>>
          ELSE /\ products' = [products EXCEPT ![p] = NewProduct(g.barcode)]
               /\ stock' = [stock EXCEPT ![p] = 0]
               /\ last' = Done("Product.create", p, g.checks, g.barcode, "ok", <<>>)
    /\ UNCHANGED <<unitDp, batches, customers, txns, reqs>>

\* Product.save of an existing product; when a field printed on the label
\* has changed, generate_label saves once more
ProductSave(p, fields_changed) ==
    /\ products[p].created
    /\ products' = [products EXCEPT ![p] =
                       IF fields_changed
                       THEN AfterPostSave(AfterPostSave(@, FALSE), FALSE)
                       ELSE AfterPostSave(@, FALSE)]
    /\ last' = Done("Product.save", p, IF fields_changed THEN 1 ELSE 0, 0, "ok", <<>>)
    /\ UNCHANGED <<unitDp, batches, stock, customers, txns, reqs>>

\* quantities offered with batch_info
BatchInfoRequests == {0, (4 * One) \div 10, Half, One}

\* the rows of a new product after its batch_info has been handled by
\* ProductViewSet.create: the quantity is quantized to the unit's precision
\* (default rounding), and the batch is saved only when ProductBatchSerializer
\* accepts it
BatchInfoRows(raw, dp) ==
    LET quantity == QuantizeHalfEven(raw, dp)
    IN  IF BatchQuantityValid(quantity)
        THEN <<[quantity |-> quantity, expiration_date |-> NullDate]>>
        ELSE <<>>

\* ProductViewSet.create for a barcode that no product has, with batch_info:
\* the product is created whether or not the batch is
ProductCreateWithBatch(p, raw) ==
    /\ ~products[p].created
    /\ \E barcode \in Barcodes \ UsedBarcodes :
          products' = [products EXCEPT ![p] = NewProduct(barcode)]
    /\ batches' = [batches EXCEPT ![p] = BatchInfoRows(raw, unitDp[p])]
    /\ stock' = [stock EXCEPT ![p] = UpdateQuantity(BatchInfoRows(raw, unitDp[p]))]
    /\ last' = Done("products.create", p, raw, QuantizeHalfEven(raw, unitDp[p]),
                    "ok", <<>>)
    /\ UNCHANGED <<unitDp, customers, txns, reqs>>

\* validate_batch_info of ProductMultiSizeCreateSerializer for a dict: the
\* sign is tested on the quantity as sent, the quantity is quantized after
MultiSizeError(raw) == IF raw <= 0 THEN "InvalidQuantity" ELSE "ok"
MultiSizeQuantity(raw, dp) == QuantizeHalfUp(raw, dp)

\* ProductViewSet.create_multi_size with batch_info (one product): the
\* serializer takes the first digits of a UUID as the barcode, and
\* ProductBatch.objects.create stores the validated quantity
CreateMultiSize(p, raw) ==
    /\ ~products[p].created
    /\ \E barcode \in Barcodes :
        LET error == IF MultiSizeError(raw) # "ok" THEN MultiSizeError(raw)
                     ELSE InsertError(barcode, UsedBarcodes)
            rows == <<[quantity |-> MultiSizeQuantity(raw, unitDp[p]),
                       expiration_date |-> NullDate]>>
        IN  IF error # "ok"
            THEN /\ last' = Done("products.create_multi_size", p, raw, raw,
                                 error, <<>>)
                 /\ UNCHANGED <<products, batches, stock>>
            ELSE /\ products' = [products EXCEPT ![p] = NewProduct(barcode)]
                 /\ batches' = [batches EXCEPT ![p] = rows]
                 /\ stock' = [stock EXCEPT ![p] = UpdateQuantity(rows)]
                 /\ last' = Done("products.create_multi_size", p, raw,
                                 MultiSizeQuantity(raw, unitDp[p]), "ok", <<>>)
    /\ UNCHANGED <<unitDp, customers, txns, reqs>>

InitProduct ==
    /\ unitDp = [p \in Products |-> IF p = "p1" THEN 0 ELSE 2]
    /\ products = [p \in Products |-> NoProduct]
    /\ batches = [p \in Products |-> <<>>]
    /\ stock = [p \in Products |-> 0]
    /\ InitData

NextProduct ==
    \/ \E p \in Products : ProductCreate(p)
    \/ \E p \in Products, fields_changed \in BOOLEAN : ProductSave(p, fields_changed)
    \/ \E p \in Products, q \in {(4 * One) \div 10, One, 5 * Half} :
           products[p].created /\ BatchCreate(p, q, NullDate)
    \/ \E p \in Products : products[p].created /\ StockSell(p, One)
    \/ \E p \in Products, raw \in BatchInfoRequests : ProductCreateWithBatch(p, raw)
    \/ \E p \in Products, raw \in BatchInfoRequests : CreateMultiSize(p, raw)

SpecProduct == InitProduct /\ [][NextProduct]_vars

\* ------------------------------------------------------------------------
\* Sales: Transaction.process_sale (specification SpecSale)
\* ------------------------------------------------------------------------
\* Money is counted in tenths of the currency unit: amounts with one decimal
\* are exact, and the limit of the money fields (max_digits=10,
\* decimal_places=2: below 100000000) stays within the integers of the model
\* checker.
Tenth == 10
MaxDigits == 10
MoneyPlaces == 2
MoneyLimit == Pow10(MaxDigits - MoneyPlaces) * Tenth
Totals == {255}

\* a DecimalField(max_digits=10, decimal_places=2) can be saved with value v;
\* a larger value makes save() raise
Fits(v) == v < MoneyLimit
PaymentMethods == {"cash", "debt"}

\* item lists of the transactions offered (TransactionItem.quantity is a
\* PositiveIntegerField: whole units)
Item(p, n) == [product |-> p, quantity |-> n * One]
ItemLists ==
    {<<Item("p1", 1)>>, <<Item("p1", 3)>>, <<Item("p1", 1), Item("p2", 1)>>,
     <<Item("p1", 1), Item("p2", 3)>>, <<Item("p1", 2), Item("p1", 2)>>}

\* the item loop of TransactionSerializer.validate, for quantities given in
\* the product's own unit: every line is positive and is covered by the
\* Stock.quantity of its product
ValidateItems(items, stk) ==
    \A i \in 1 .. Len(items) :
        /\ ~(items[i].quantity <= 0)
        /\ ~(stk[items[i].product] < items[i].quantity)

\* Transaction.objects.create and TransactionItem.objects.create: a new
\* transaction starts in the default status
NewTransaction(items, method, customer, total) ==
    /\ Len(txns) < MaxTxns
    /\ txns' = Append(txns, [status |-> "pending", payment_method |-> method,
                             customer |-> customer, total_amount |-> total,
                             items |-> items])
    /\ last' = Done("Transaction.create", "p1", 0, 0, "ok", <<>>)
    /\ UNCHANGED <<unitDp, products, batches, stock, customers, reqs>>

\* the loop of process_sale over the items: every Stock.sell commits what it
\* did; the loop ends at the first item that raises.
RECURSIVE SellItems(_, _, _, _)
SellItems(dps, bs, stk, items) ==
    IF items = <<>> THEN [outcome |-> "ok", batches |-> bs, stock |-> stk]
    ELSE LET p == Head(items).product
             r == StockSellResult(dps[p], bs[p], stk[p], Head(items).quantity)
             bs2 == [bs EXCEPT ![p] = r.batches]
             stk2 == [stk EXCEPT ![p] = r.stock]
         IN  IF r.outcome # "ok"
             THEN [outcome |-> r.outcome, batches |-> bs2, stock |-> stk2]
             ELSE SellItems(dps, bs2, stk2, Tail(items))

LoyaltyPointsRounded(total) == (total + 5 * Tenth) \div (10 * Tenth)

\* loyalty points earned by a sale
LoyaltyPoints(total) == total \div (10 * Tenth)

AddDebtOverwrite(c, amount) == [c EXCEPT !.debt = amount]

\* Customer.add_debt
AddDebt(c, amount) == [c EXCEPT !.debt = @ + amount]

\* the customer row after the bookkeeping of process_sale
Bookkeeping(c, method, total) ==
    LET d == IF method = "debt" THEN AddDebt(c, total) ELSE c
    IN  [d EXCEPT !.total_spent = @ + total,
                  !.loyalty_points = @ + LoyaltyPoints(total)]

\* what the database holds when process_sale has raised after selling
SaleFailure(sold) == sold

\* the customer row once the debt step of process_sale has saved
AfterDebt(c, tx) == IF tx.payment_method = "debt" THEN AddDebt(c, tx.total_amount) ELSE c

\* Customer.add_debt raises in save(update_fields=['debt']): nothing of the
\* customer has been written
DebtOverflow(c, tx) ==
    tx.payment_method = "debt" /\ ~Fits(c.debt + tx.total_amount)

\* save(update_fields=['total_spent', 'loyalty_points']) raises: the debt, if
\* any, has been written by add_debt before
SpentOverflow(c, tx) == ~Fits(c.total_spent + tx.total_amount)

StatusOnFailureCompleted(tx) == "completed"

\* the status a transaction has when process_sale has raised: the assignment
\* of 'completed' and its save come after every raise
StatusOnFailure(tx) == tx.status

ProcessableAlways(tx) == TRUE

\* the status check that opens process_sale
Processable(tx) == tx.status = "pending"

\* Transaction.process_sale on transaction t.  The receivers of
\* sales/signals.py and analytics/signals.py are imported by no module of the
\* applications and so are not connected; save(update_fields=['status'])
\* runs no handler.
ProcessSale(t) ==
    LET tx == txns[t]
        sold == SellItems(unitDp, batches, stock, tx.items)
        kept == SaleFailure(sold)
    IN  IF ~Processable(tx)
        THEN /\ last' = Done("process_sale", "p1", t, 0, "AlreadyProcessed", <<>>)
             /\ UNCHANGED <<unitDp, products, batches, stock, customers, txns, reqs>>
        ELSE IF sold.outcome # "ok"
        THEN /\ batches' = kept.batches
             /\ stock' = kept.stock
             /\ txns' = [txns EXCEPT ![t].status = StatusOnFailure(tx)]
             /\ last' = Done("process_sale", "p1", t, 0, sold.outcome, <<>>)
             /\ UNCHANGED <<unitDp, products, customers, reqs>>
        ELSE IF tx.payment_method = "debt" /\ tx.customer = NoCustomer
        THEN /\ batches' = kept.batches
             /\ stock' = kept.stock
             /\ txns' = [txns EXCEPT ![t].status = StatusOnFailure(tx)]
             /\ last' = Done("process_sale", "p1", t, 0, "CustomerRequiredForDebt", <<>>)
             /\ UNCHANGED <<unitDp, products, customers, reqs>>
        ELSE IF tx.customer # NoCustomer /\ DebtOverflow(customers[tx.customer], tx)
        THEN /\ batches' = kept.batches
             /\ stock' = kept.stock
             /\ txns' = [txns EXCEPT ![t].status = StatusOnFailure(tx)]
             /\ last' = Done("process_sale", "p1", t, 0, "InvalidOperation", <<>>)
             /\ UNCHANGED <<unitDp, products, customers, reqs>>
        ELSE IF tx.customer # NoCustomer /\ SpentOverflow(customers[tx.customer], tx)
        THEN /\ batches' = kept.batches
             /\ stock' = kept.stock
             /\ customers' = [customers EXCEPT ![tx.customer] = AfterDebt(@, tx)]
             /\ txns' = [txns EXCEPT ![t].status = StatusOnFailure(tx)]
             /\ last' = Done("process_sale", "p1", t, 0, "InvalidOperation", <<>>)
             /\ UNCHANGED <<unitDp, products, reqs>>
        ELSE /\ batches' = sold.batches
             /\ stock' = sold.stock
             /\ customers' = IF tx.customer = NoCustomer THEN customers
                             ELSE [customers EXCEPT ![tx.customer] =
                                      Bookkeeping(@, tx.payment_method, tx.total_amount)]
             /\ txns' = [txns EXCEPT ![t].status = "completed"]
             /\ last' = Done("process_sale", "p1", t, 0, "ok", <<>>)
             /\ UNCHANGED <<unitDp, products, reqs>>

\* stocks the sales start from: batches received through the batch resource
Batch(n) == [quantity |-> n * One, expiration_date |-> NullDate]
SaleStocks == {<<Batch(2)>>, <<Batch(1), Batch(3)>>}

\* customers the sales start from: a new one, one who has bought for 10.00
\* on debt before, and one whose cash purchases have brought total_spent to
\* 10.00 below the limit of the field
NewCustomer == [debt |-> 0, total_spent |-> 0, loyalty_points |-> 0]
PriorCustomers ==
    {NewCustomer, Bookkeeping(NewCustomer, "debt", 10 * Tenth),
     Bookkeeping(NewCustomer, "cash", MoneyLimit - 10 * Tenth)}

InitSale ==
    /\ unitDp = [p \in Products |-> IF p = "p1" THEN 0 ELSE 2]
    /\ products = AllCreated
    /\ batches \in [Products -> SaleStocks]
    /\ stock = [p \in Products |-> UpdateQuantity(batches[p])]
    /\ customers \in [Customers -> PriorCustomers]
    /\ txns = <<>>
    /\ reqs = <<>>
    /\ last = NoOp

\* process_sale is followed while the customer's debt is below DebtCap (a
\* failed call can be repeated and can bill the debt again each time)
DebtCap == (10 + 26 * MaxBillings) * Tenth
Billable(t) ==
    txns[t].customer # NoCustomer => customers[txns[t].customer].debt < DebtCap

NextSale ==
    \/ \E items \in ItemLists, method \in PaymentMethods,
          customer \in Customers \cup {NoCustomer}, total \in Totals :
           NewTransaction(items, method, customer, total)
    \/ \E t \in 1 .. Len(txns) : Billable(t) /\ ProcessSale(t)
    \/ \E p \in Products, raw \in {One} : StockSell(p, raw)
    \/ \E p \in {"p1"}, raw \in {5 * One} : StockAdjust(p, raw)

SpecSale == InitSale /\ [][NextSale]_vars

\* ------------------------------------------------------------------------
\* Two sell requests for one product whose database statements interleave
\* (specification SpecConc).  Stock.sell runs as process_sale calls it: no
\* atomic block and no select_for_update, so every statement commits alone.
\* ------------------------------------------------------------------------
Requests == {1, 2}
ConcProduct == "p1"
ConcQuantities == {One, 2 * One}
ConcStocks == {<<Batch(3)>>, <<Batch(1), Batch(2)>>}

\* locals of a request that sells q of product p.  pk of a snapshot row is
\* the position the row has in batches[p] now, 0 once the row has been
\* deleted.  overlapped tells whether the other request was under way when
\* this one loaded its Stock row; before and initial are the Stock.quantity
\* and the batches of p when the requests arrive.
NewRequest(p, q, avail, bs) ==
    [pc |-> "load", product |-> p, quantity |-> q, before |-> avail,
     initial |-> bs, overlapped |-> FALSE, self_quantity |-> 0,
     snapshot |-> <<>>, pos |-> 0, remaining |-> 0, sell_amount |-> 0,
     total |-> 0, outcome |-> "running"]

Fail(rec, err) == [rec EXCEPT !.pc = "failed", !.outcome = err]

\* the iteration at rec.pos is over: the next iteration, or update_quantity
Advance(rec) ==
    LET left == rec.remaining - rec.sell_amount
    IN  [rec EXCEPT !.remaining = left,
                    !.pos = @ + 1,
                    !.pc = IF rec.pos + 1 > Len(rec.snapshot) \/ left <= 0
                           THEN "final_sum" ELSE "sell"]

SignalStockFirst(p) == ConcProduct

\* update_stock_on_batch_change: the Stock row recomputed is the one of the
\* product of the batch that was saved
SignalStock(p) == p

\* stock = item.product.stock: the Stock row is read into the instance
Load(r) ==
    /\ reqs[r].pc = "load"
    /\ reqs' = [reqs EXCEPT
                  ![r].self_quantity = stock[reqs[r].product],
                  ![r].overlapped =
                      \E o \in Requests \ {r} :
                          reqs[o].pc \notin {"load", "done", "failed"},
                  ![r].pc = "check"]
    /\ UNCHANGED <<unitDp, products, batches, stock, customers, txns, last>>

\* the checks of Stock.sell on the instance, then the SELECT of the batches
\* that the for loop iterates over
CheckAndQuery(r) ==
    LET rec == reqs[r]
        bs == batches[rec.product]
        ord == SellOrder(bs)
    IN  /\ rec.pc = "check"
        /\ reqs' = [reqs EXCEPT ![r] =
              IF unitDp[rec.product] = 0 /\ ~IsInteger(rec.quantity)
              THEN Fail(rec, "FractionalQuantityNotAllowed")
              ELSE IF NonPositive(rec.quantity) THEN Fail(rec, "InvalidQuantity")
              ELSE IF Insufficient(rec.self_quantity, rec.quantity)
              THEN Fail(rec, "InsufficientStock")
              ELSE [rec EXCEPT
                      !.snapshot = [k \in 1 .. Len(bs) |->
                                       [pk |-> ord[k], quantity |-> bs[ord[k]].quantity]],
                      !.pos = 1,
                      !.remaining = rec.quantity,
                      !.pc = IF bs = <<>> THEN "final_sum" ELSE "sell"]]
        /\ UNCHANGED <<unitDp, products, batches, stock, customers, txns, last>>

\* batch.sell(sell_amount) up to its UPDATE: quantity = F('quantity') - amount
SellUpdate(r) ==
    LET rec == reqs[r]
        row == rec.snapshot[rec.pos]
        amount == SellAmount(rec.remaining, row.quantity)
        err == BatchSellError(unitDp[rec.product], row.quantity, amount)
    IN  /\ rec.pc = "sell"
        /\ IF err # "ok"
           THEN /\ reqs' = [reqs EXCEPT ![r] = Fail(rec, err)]
                /\ UNCHANGED batches
           ELSE IF row.pk = 0
           THEN /\ reqs' = [reqs EXCEPT ![r] = Fail(rec, "DatabaseError")]
                /\ UNCHANGED batches
           ELSE /\ batches' = [batches EXCEPT ![rec.product][row.pk].quantity = @ - amount]
                /\ reqs' = [reqs EXCEPT ![r].sell_amount = amount, ![r].pc = "signal_sum"]
        /\ UNCHANGED <<unitDp, products, stock, customers, txns, last>>

\* update_stock_on_batch_change: the SUM read by update_quantity
SignalSum(r) ==
    /\ reqs[r].pc = "signal_sum"
    /\ reqs' = [reqs EXCEPT ![r].total = SumQty(batches[SignalStock(reqs[r].product)]),
                            ![r].pc = "signal_save"]
    /\ UNCHANGED <<unitDp, products, batches, stock, customers, txns, last>>

\* update_stock_on_batch_change: the save of update_quantity
SignalSave(r) ==
    /\ reqs[r].pc = "signal_save"
    /\ stock' = [stock EXCEPT ![SignalStock(reqs[r].product)] = QuantizeHalfUp(reqs[r].total, Places)]
    /\ reqs' = [reqs EXCEPT ![r].pc = "refresh"]
    /\ UNCHANGED <<unitDp, products, batches, customers, txns, last>>

\* refresh_from_db of the batch, and the test for deletion
Refresh(r) ==
    LET rec == reqs[r]
        row == rec.snapshot[rec.pos]
    IN  /\ rec.pc = "refresh"
        /\ reqs' = [reqs EXCEPT ![r] =
              IF row.pk = 0 THEN Fail(rec, "DoesNotExist")
              ELSE IF BatchDeleted(batches[rec.product][row.pk].quantity)
              THEN [rec EXCEPT !.pc = "delete"]
              ELSE Advance(rec)]
        /\ UNCHANGED <<unitDp, products, batches, stock, customers, txns, last>>

\* the snapshot rows of a request after row i has been deleted
Renumber(snapshot, i) ==
    [k \in 1 .. Len(snapshot) |->
        [snapshot[k] EXCEPT !.pk = IF @ = i THEN 0 ELSE IF @ > i THEN @ - 1 ELSE @]]

\* self.delete() of a batch whose refreshed quantity is zero
Delete(r) ==
    LET rec == reqs[r]
        pk == rec.snapshot[rec.pos].pk
    IN  /\ rec.pc = "delete"
        /\ IF pk = 0
           THEN /\ reqs' = [reqs EXCEPT ![r] = Advance(rec)]
                /\ UNCHANGED batches
           ELSE /\ batches' = [batches EXCEPT ![rec.product] = RemoveAt(@, pk)]
                /\ reqs' = [q \in Requests |->
                              LET moved == IF reqs[q].product = rec.product
                                           THEN [reqs[q] EXCEPT !.snapshot = Renumber(@, pk)]
                                           ELSE reqs[q]
                              IN  IF q = r THEN Advance(moved) ELSE moved]
        /\ UNCHANGED <<unitDp, products, stock, customers, txns, last>>

\* self.update_quantity() at the end of Stock.sell: the SUM
FinalSum(r) ==
    /\ reqs[r].pc = "final_sum"
    /\ reqs' = [reqs EXCEPT ![r].total = SumQty(batches[reqs[r].product]),
                            ![r].pc = "final_save"]
    /\ UNCHANGED <<unitDp, products, batches, stock, customers, txns, last>>

\* self.update_quantity() at the end of Stock.sell: the save; the sale is made
FinalSave(r) ==
    /\ reqs[r].pc = "final_save"
    /\ stock' = [stock EXCEPT ![reqs[r].product] = QuantizeHalfUp(reqs[r].total, Places)]
    /\ reqs' = [reqs EXCEPT ![r].pc = "done", ![r].outcome = "ok"]
    /\ UNCHANGED <<unitDp, products, batches, customers, txns, last>>

InitConc ==
    /\ unitDp = [p \in Products |-> IF p = "p1" THEN 0 ELSE 2]
    /\ products = AllCreated
    /\ batches \in {[p \in Products |-> IF p = ConcProduct THEN bs ELSE <<>>] :
                       bs \in ConcStocks}
    /\ stock = [p \in Products |-> UpdateQuantity(batches[p])]
    /\ customers = [c \in Customers |-> [debt |-> 0, total_spent |-> 0, loyalty_points |-> 0]]
    /\ txns = <<>>
    /\ reqs \in {[r \in Requests |-> NewRequest(ConcProduct, q[r], stock[ConcProduct],
                                               batches[ConcProduct])] :
                    q \in [Requests -> ConcQuantities]}
    /\ last = NoOp

NextConc ==
    \E r \in Requests :
        \/ Load(r)
        \/ CheckAndQuery(r)
        \/ SellUpdate(r)
        \/ SignalSum(r)
        \/ SignalSave(r)
        \/ Refresh(r)
        \/ Delete(r)
        \/ FinalSum(r)
        \/ FinalSave(r)

SpecConc == InitConc /\ [][NextConc]_vars

\* ------------------------------------------------------------------------
\* Two concurrent Stock.sell calls on different products (specification
\* SpecApart): the steps are those of SpecConc.
\* ------------------------------------------------------------------------
\* the product each request sells, and the quantities asked
ApartProduct(r) == IF r = 1 THEN "p1" ELSE "p2"
ApartQuantities == {One, 2 * One, 4 * One}

InitApart ==
    /\ unitDp = [p \in Products |-> IF p = "p1" THEN 0 ELSE 2]
    /\ products = AllCreated
    /\ batches \in [Products -> ConcStocks]
    /\ stock = [p \in Products |-> UpdateQuantity(batches[p])]
    /\ customers = [c \in Customers |-> [debt |-> 0, total_spent |-> 0, loyalty_points |-> 0]]
    /\ txns = <<>>
    /\ reqs \in {[r \in Requests |->
                      NewRequest(ApartProduct(r), q[r], stock[ApartProduct(r)],
                                 batches[ApartProduct(r)])] :
                    q \in [Requests -> ApartQuantities]}
    /\ last = NoOp

SpecApart == InitApart /\ [][NextConc]_vars

\* ------------------------------------------------------------------------
\* Two concurrent debt sales of one customer (specification SpecDebt).
\* process_sale runs in no atomic block and takes no row lock, so each of its
\* statements commits alone; reqs holds, per sale, the position reached and
\* the Customer instance that the sale works on.
\* ------------------------------------------------------------------------
DebtSales == {1, 2}
DebtCustomer == "c1"
DebtTotals == {255, 100 * Tenth}

\* the two sales: one line each, of different products
DebtSale(t, total) ==
    [status |-> "pending", payment_method |-> "debt", customer |-> DebtCustomer,
     total_amount |-> total,
     items |-> <<Item(IF t = 1 THEN "p1" ELSE "p2", 1)>>]

SaleFailed(rec, err) == [rec EXCEPT !.pc = "failed", !.outcome = err]

\* the status check and the loop over the items
SaleSell(t) ==
    LET tx == txns[t]
        sold == SellItems(unitDp, batches, stock, tx.items)
    IN  /\ reqs[t].pc = "sell"
        /\ IF ~Processable(tx)
           THEN /\ reqs' = [reqs EXCEPT ![t] = SaleFailed(@, "AlreadyProcessed")]
                /\ UNCHANGED <<batches, stock>>
           ELSE /\ batches' = sold.batches
                /\ stock' = sold.stock
                /\ reqs' = [reqs EXCEPT ![t] =
                               IF sold.outcome # "ok" THEN SaleFailed(@, sold.outcome)
                               ELSE [@ EXCEPT !.pc = "customer"]]
        /\ UNCHANGED <<unitDp, products, customers, txns, last>>

\* self.customer: the Customer row is read into the instance of this sale
SaleCustomer(t) ==
    /\ reqs[t].pc = "customer"
    /\ reqs' = [reqs EXCEPT ![t].instance = customers[txns[t].customer],
                            ![t].pc = "add_debt"]
    /\ UNCHANGED <<unitDp, products, batches, stock, customers, txns, last>>

\* Customer.add_debt on the instance: debt += amount, then
\* save(update_fields=['debt']) writes the instance's value
SaleAddDebt(t) ==
    LET tx == txns[t]
        rec == reqs[t]
    IN  /\ rec.pc = "add_debt"
        /\ IF DebtOverflow(rec.instance, tx)
           THEN /\ reqs' = [reqs EXCEPT ![t] = SaleFailed(@, "InvalidOperation")]
                /\ UNCHANGED customers
           ELSE /\ reqs' = [reqs EXCEPT ![t].instance = AfterDebt(@, tx),
                                        ![t].pc = "spent"]
                /\ customers' = [customers EXCEPT ![tx.customer].debt =
                                     AfterDebt(rec.instance, tx).debt]
        /\ UNCHANGED <<unitDp, products, batches, stock, txns, last>>

\* total_spent and loyalty_points are raised on the instance, then
\* save(update_fields=['total_spent', 'loyalty_points']) writes its values
SaleSpent(t) ==
    LET tx == txns[t]
        rec == reqs[t]
    IN  /\ rec.pc = "spent"
        /\ IF SpentOverflow(rec.instance, tx)
           THEN /\ reqs' = [reqs EXCEPT ![t] = SaleFailed(@, "InvalidOperation")]
                /\ UNCHANGED customers
           ELSE /\ reqs' = [reqs EXCEPT ![t].pc = "status"]
                /\ customers' = [customers EXCEPT
                      ![tx.customer].total_spent =
                          rec.instance.total_spent + tx.total_amount,
                      ![tx.customer].loyalty_points =
                          rec.instance.loyalty_points + LoyaltyPoints(tx.total_amount)]
        /\ UNCHANGED <<unitDp, products, batches, stock, txns, last>>

\* self.status = 'completed' and its save
SaleStatus(t) ==
    /\ reqs[t].pc = "status"
    /\ txns' = [txns EXCEPT ![t].status = "completed"]
    /\ reqs' = [reqs EXCEPT ![t].pc = "done", ![t].outcome = "ok"]
    /\ UNCHANGED <<unitDp, products, batches, stock, customers, last>>

InitDebt ==
    /\ unitDp = [p \in Products |-> IF p = "p1" THEN 0 ELSE 2]
    /\ products = AllCreated
    /\ batches \in [Products -> SaleStocks]
    /\ stock = [p \in Products |-> UpdateQuantity(batches[p])]
    /\ customers \in [Customers -> PriorCustomers]
    /\ txns \in {[t \in DebtSales |-> DebtSale(t, total[t])] :
                    total \in [DebtSales -> DebtTotals]}
    /\ reqs = [t \in DebtSales |->
                  [pc |-> "sell", instance |-> NewCustomer, outcome |-> "running",
                   before |-> customers[DebtCustomer]]]
    /\ last = NoOp

NextDebt ==
    \E t \in DebtSales :
        \/ SaleSell(t)
        \/ SaleCustomer(t)
        \/ SaleAddDebt(t)
        \/ SaleSpent(t)
        \/ SaleStatus(t)

SpecDebt == InitDebt /\ [][NextDebt]_vars

\* ------------------------------------------------------------------------
\* Properties of the inventory operations (specification Spec)
\* ------------------------------------------------------------------------
\* the step is a call of Stock.sell on the model (Pp is its product)
Pp == last'.product
IsStockSell == last'.op = "Stock.sell"
SellUnchanged == batches' = batches /\ stock' = stock
WholeForUnit(p, q) == unitDp[p] = 0 => IsInteger(q)

RECURSIVE LogAmount(_)
LogAmount(log) == IF log = <<>> THEN 0 ELSE Head(log).amount + LogAmount(Tail(log))

\* C1: after every completed operation, Stock.quantity of each product equals
\* the sum of the quantities of the product's batches.
C1_StockEqualsBatchSum == \A p \in Products : stock[p] = SumQty(batches[p])

\* the order of the claim: dated batches by ascending date, undated batches
\* after all dated ones, ties by creation
ClaimBefore(bs, i, j) ==
    \/ bs[i].expiration_date # NullDate /\ bs[j].expiration_date = NullDate
    \/ /\ bs[i].expiration_date # NullDate
       /\ bs[j].expiration_date # NullDate
       /\ bs[i].expiration_date < bs[j].expiration_date
    \/ bs[i].expiration_date = bs[j].expiration_date /\ i < j

SoldFifo(bs, log) ==
    \A k \in 1 .. Len(log) :
        log[k].amount > 0 =>
            \A j \in 1 .. Len(bs) :
                ClaimBefore(bs, j, log[k].index) =>
                    \E m \in 1 .. (k - 1) :
                        /\ log[m].index = j
                        /\ log[m].deleted
                        /\ log[m].amount = bs[j].quantity

C5_Original ==
    [][(IsStockSell /\ last'.quantity > stock[Pp]) =>
          (last'.outcome = "InsufficientStock" /\ SellUnchanged)]_vars

\* C5 amended: Stock.sell with a quantity greater than Stock.quantity fails,
\* with FractionalQuantityNotAllowed when the unit has decimal_places = 0 and
\* the quantity is not whole and with InsufficientStock otherwise, and changes
\* neither Stock.quantity nor the batches.
C5_InsufficientStock ==
    [][(IsStockSell /\ last'.quantity > stock[Pp]) =>
          /\ last'.outcome = IF WholeForUnit(Pp, last'.quantity)
                             THEN "InsufficientStock"
                             ELSE "FractionalQuantityNotAllowed"
          /\ SellUnchanged]_vars

C5_Witness ==
    /\ last.op = "Stock.sell" /\ last.outcome = "InsufficientStock"
    /\ batches[last.product] # <<>>
    /\ last.quantity > stock[last.product]

\* C6: when Stock.quantity covers the requested quantity but the batches sum
\* to less, Stock.sell raises an error.
C6_IntegrityFaultRaised ==
    [][(/\ IsStockSell
        /\ last'.quantity > 0
        /\ stock[Pp] >= last'.quantity
        /\ SumQty(batches[Pp]) < last'.quantity) =>
          last'.outcome # "ok"]_vars

\* C7: with Stock.quantity = s set directly, no batch, and 0 < q <= s,
\* Stock.sell(q) succeeds and leaves Stock.quantity = s - q.
C7_DirectStockSell ==
    [][(/\ IsStockSell
        /\ batches[Pp] = <<>>
        /\ 0 < last'.quantity /\ last'.quantity <= stock[Pp]
        /\ WholeForUnit(Pp, last'.quantity)) =>
          (last'.outcome = "ok" /\ stock'[Pp] = stock[Pp] - last'.quantity)]_vars

\* C8: with batches summing to s = Stock.quantity and 0 < q <= s (q whole for
\* a zero-decimal unit), Stock.sell(q) succeeds and leaves both the batch sum
\* and Stock.quantity at s - q; selling all of s leaves no batch.
C8_SellFromBatches ==
    [][(/\ IsStockSell
        /\ SumQty(batches[Pp]) = stock[Pp]
        /\ 0 < last'.quantity /\ last'.quantity <= stock[Pp]
        /\ WholeForUnit(Pp, last'.quantity)) =>
          /\ last'.outcome = "ok"
          /\ SumQty(batches'[Pp]) = stock[Pp] - last'.quantity
          /\ stock'[Pp] = stock[Pp] - last'.quantity
          /\ (last'.quantity = stock[Pp] => batches'[Pp] = <<>>)]_vars

\* C9: a positive non-integral request for a product of a zero-decimal unit
\* fails with FractionalQuantityNotAllowed and sells nothing, through
\* Stock.sell and through the product sell endpoint.
C9_FractionalRejected ==
    [][(/\ last'.op \in {"Stock.sell", "products.sell"}
        /\ unitDp[Pp] = 0
        /\ last'.request > 0
        /\ ~IsInteger(QuantizeHalfUp(last'.request, Places))) =>
          (last'.outcome = "FractionalQuantityNotAllowed" /\ SellUnchanged)]_vars

\* C10 as stated: Stock.sell with a quantity that is zero or negative after
\* normalisation fails with InvalidQuantity and changes nothing.
C10_Original ==
    [][(IsStockSell /\ last'.quantity <= 0) =>
          (last'.outcome = "InvalidQuantity" /\ SellUnchanged)]_vars

\* C10 amended: Stock.sell with a quantity that is zero or negative after
\* normalisation fails, with FractionalQuantityNotAllowed when the unit has
\* decimal_places = 0 and the quantity is not whole and with InvalidQuantity
\* otherwise, and changes neither Stock.quantity nor the batches.
C10_NonPositiveRejected ==
    [][(IsStockSell /\ last'.quantity <= 0) =>
          /\ last'.outcome = IF WholeForUnit(Pp, last'.quantity)
                             THEN "InvalidQuantity"
                             ELSE "FractionalQuantityNotAllowed"
          /\ SellUnchanged]_vars

\* a request of 0.00004 was normalised to 0 and rejected, with stock at hand
C10_Witness ==
    /\ last.op = "Stock.sell" /\ last.outcome = "InvalidQuantity"
    /\ last.request > 0 /\ last.quantity = 0
    /\ batches[last.product] # <<>>

\* C11: a completed ProductBatch.sell deletes the batch exactly when the
\* quantity left after the subtraction is zero and keeps it, holding the
\* remainder, when the remainder is positive; after a completed sell
\* (ProductBatch.sell or Stock.sell) no batch of the product is stored with
\* quantity zero.
C11_ZeroBatchDeleted ==
    [][(last'.op \in {"ProductBatch.sell", "Stock.sell"} /\ last'.outcome = "ok") =>
          /\ last'.op = "ProductBatch.sell" =>
                LET i == last'.sold[1].index
                    left == batches[Pp][i].quantity - last'.quantity
                IN  /\ left = 0 => batches'[Pp] = RemoveAt(batches[Pp], i)
                    /\ left > 0 => batches'[Pp] = [batches[Pp] EXCEPT ![i].quantity = left]
          /\ \A i \in 1 .. Len(batches'[Pp]) : batches'[Pp][i].quantity # 0]_vars

\* C19: Stock.update_quantity is idempotent: after a call, Stock.quantity is
\* the sum of the product's batch quantities (0 when there are none), and a
\* second call with no batch change in between stores that same value again.
C19_UpdateQuantityIdempotent ==
    last.op = "Stock.update_quantity" =>
        /\ stock[last.product] = SumQty(batches[last.product])
        /\ UpdateQuantity(batches[last.product]) = stock[last.product]
        /\ batches[last.product] = <<>> => stock[last.product] = 0

\* update_quantity has been called for a product with batches of 1 and 2.5
C19_Witness ==
    /\ last.op = "Stock.update_quantity"
    /\ Len(batches[last.product]) = 2
    /\ stock[last.product] = 7 * Half

C25_BatchCreateAddsOne ==
    [][(last'.op = "batches.create" /\ last'.outcome = "ok") =>
          /\ Len(batches'[Pp]) = Len(batches[Pp]) + 1
          /\ SubSeq(batches'[Pp], 1, Len(batches[Pp])) = batches[Pp]
          /\ batches'[Pp][Len(batches'[Pp])].quantity = last'.quantity
          /\ stock'[Pp] = SumQty(batches[Pp]) + last'.quantity
          /\ \A p \in Products \ {Pp} : batches'[p] = batches[p]]_vars

\* a second batch with the expiration date of the first has been created
C25_Witness ==
    /\ last.op = "batches.create"
    /\ last.outcome = "ok"
    /\ Len(batches[last.product]) = 2
    /\ batches[last.product][1].expiration_date = batches[last.product][2].expiration_date
    /\ batches[last.product][2].quantity = last.quantity
    /\ stock[last.product] = batches[last.product][1].quantity + last.quantity

\* C26: Stock.sell normalises the requested quantity to the precision of the
\* product's unit (half-up) before the availability check and the deduction:
\* a request that is not positive at that precision is rejected and changes
\* nothing, and a successful call that the batches cover deducts the
\* normalised quantity.
C26_NormalisedToUnit ==
    [][IsStockSell =>
          LET normalised == QuantizeHalfUp(last'.request, unitDp[Pp])
          IN  /\ normalised <= 0 => (last'.outcome # "ok" /\ SellUnchanged)
              /\ (last'.outcome = "ok" /\ normalised <= SumQty(batches[Pp])) =>
                     SumQty(batches[Pp]) - SumQty(batches'[Pp]) = normalised]_vars

\* C27 as stated: ProductBatch.sell with an amount greater than the batch's
\* quantity fails with InsufficientBatchStock and leaves the batch and
\* Stock.quantity unchanged; otherwise it returns the amount consumed.
C27_Original ==
    [][last'.op = "ProductBatch.sell" =>
          IF last'.quantity > last'.cached
          THEN last'.outcome = "InsufficientBatchStock" /\ SellUnchanged
          ELSE /\ last'.outcome = "ok"
               /\ last'.sold[1].amount = last'.quantity]_vars

\* C27 amended: ProductBatch.sell fails with FractionalQuantityNotAllowed when
\* the unit has decimal_places = 0 and the amount is not whole (that check
\* comes first), and otherwise with InsufficientBatchStock when the amount is
\* greater than the batch's quantity; a failed call leaves the batch and
\* Stock.quantity unchanged.  In every other case it returns the amount it
\* was given and, the amount having at most 4 decimal places, the batches
\* hold that much less.
C27_BatchSellChecked ==
    [][last'.op = "ProductBatch.sell" =>
          IF ~WholeForUnit(Pp, last'.quantity)
          THEN last'.outcome = "FractionalQuantityNotAllowed" /\ SellUnchanged
          ELSE IF last'.quantity > last'.cached
          THEN last'.outcome = "InsufficientBatchStock" /\ SellUnchanged
          ELSE /\ last'.outcome = "ok"
               /\ last'.sold[1].amount = last'.quantity
               /\ SumQty(batches'[Pp]) = SumQty(batches[Pp]) - last'.quantity]_vars

\* ProductBatch.sell of 1 was refused for a batch holding 0.5
C27_Witness ==
    /\ last.op = "ProductBatch.sell"
    /\ last.outcome = "InsufficientBatchStock"
    /\ last.quantity = One
    /\ last.cached = Half
    /\ stock[last.product] = SumQty(batches[last.product])

\* C23: in every state reached by operations that run one after the other,
\* Stock.quantity is at least 0 and every stored batch quantity is greater
\* than 0.
C23_QuantitiesInRange ==
    \A p \in Products :
        /\ stock[p] >= 0
        /\ \A i \in 1 .. Len(batches[p]) : batches[p][i].quantity > 0

C21_NoZeroBatchCreated ==
    \A p \in Products : \A i \in 1 .. Len(batches[p]) :
        QuantizeHalfUp(batches[p][i].quantity, unitDp[p]) > 0

\* C22: a product created without a barcode is given a barcode that no
\* other product holds; generate_unique_barcode makes at most max_attempts
\* uniqueness checks, and the barcode it returns, the one of the UUID branch
\* included, is not in use.
C22_GeneratedBarcodeUnused ==
    [][last'.op = "Product.create" =>
          /\ last'.request <= max_attempts
          /\ last'.quantity \notin UsedBarcodes
          /\ last'.outcome = "ok" =>
                 /\ products'[Pp].barcode = last'.quantity
                 /\ \A p \in Products \ {Pp} :
                        products'[p].created =>
                            products'[p].barcode # products'[Pp].barcode]_vars

\* ------------------------------------------------------------------------
\* Properties of process_sale (specification SpecSale)
\* ------------------------------------------------------------------------
\* C3: when Stock.sell fails for a line during process_sale, the Stock
\* quantities and batches of every product are as before process_sale began.
C3_FailedSaleRollsBack ==
    [][(/\ last'.op = "process_sale"
        /\ last'.outcome \in {"InsufficientStock", "InvalidQuantity",
                              "FractionalQuantityNotAllowed"}) =>
          (batches' = batches /\ stock' = stock)]_vars

\* the step is a call of process_sale on transaction Tx (as stored before it)
IsProcessSale == last'.op = "process_sale"
Tx == txns[last'.request]

\* C12: process_sale on a transaction whose status is not pending fails with
\* AlreadyProcessed and changes no stock, batch, customer or transaction; a
\* second call after a successful one deducts and books nothing more.
C12_AlreadyProcessed ==
    [][(IsProcessSale /\ Tx.status # "pending") =>
          /\ last'.outcome = "AlreadyProcessed"
          /\ UNCHANGED <<batches, stock, customers, txns>>]_vars

\* a second call on a completed debt sale of a customer has been refused
C12_Witness ==
    /\ last.op = "process_sale"
    /\ last.outcome = "AlreadyProcessed"
    /\ txns[last.request].status = "completed"
    /\ txns[last.request].payment_method = "debt"
    /\ txns[last.request].customer # NoCustomer
    /\ customers[txns[last.request].customer].debt = txns[last.request].total_amount

SellErrors == {"InsufficientStock", "InvalidQuantity", "FractionalQuantityNotAllowed",
               "InsufficientBatchStock"}

\* C13: process_sale on a pending transaction paid by debt that has no
\* customer fails with CustomerRequiredForDebt (when no line failed before
\* the debt check is reached), and after the failure the Stock quantities and
\* batches are as before the call and the transaction is still pending.
C13_DebtNeedsCustomer ==
    [][(/\ IsProcessSale
        /\ Tx.status = "pending"
        /\ Tx.payment_method = "debt"
        /\ Tx.customer = NoCustomer) =>
          /\ last'.outcome \in {"CustomerRequiredForDebt"} \cup SellErrors
          /\ last'.outcome = "CustomerRequiredForDebt" =>
                /\ batches' = batches
                /\ stock' = stock
                /\ txns'[last'.request].status = "pending"]_vars

\* C14: after a successful process_sale of a transaction paid by debt that
\* has a customer, the customer's stored debt is its value before the call
\* plus the transaction's total_amount, and the transaction is completed.
C14_DebtBooked ==
    [][(/\ IsProcessSale
        /\ last'.outcome = "ok"
        /\ Tx.payment_method = "debt"
        /\ Tx.customer # NoCustomer) =>
          /\ customers'[Tx.customer].debt = customers[Tx.customer].debt + Tx.total_amount
          /\ txns'[last'.request].status = "completed"]_vars

\* a debt sale has completed for a customer who owed 10.00 before it
C14_Witness ==
    /\ last.op = "process_sale"
    /\ last.outcome = "ok"
    /\ txns[last.request].payment_method = "debt"
    /\ txns[last.request].status = "completed"
    /\ txns[last.request].customer # NoCustomer
    /\ customers[txns[last.request].customer].debt
           = 10 * Tenth + txns[last.request].total_amount

\* the quantity the lines of a transaction ask of product p
RECURSIVE LineTotal(_, _)
LineTotal(items, p) ==
    IF items = <<>> THEN 0
    ELSE (IF Head(items).product = p THEN Head(items).quantity ELSE 0)
         + LineTotal(Tail(items), p)

\* C15: after a successful process_sale the transaction is completed and the
\* Stock.quantity of every product is lower than before the call by the sum
\* of the quantities of the transaction's lines for that product.
C15_StockLowered ==
    [][(IsProcessSale /\ last'.outcome = "ok") =>
          /\ txns'[last'.request].status = "completed"
          /\ \A p \in Products : stock'[p] = stock[p] - LineTotal(Tx.items, p)]_vars

\* C16: after a successful process_sale of a transaction that has a
\* customer, whatever the payment method, the customer's total_spent has
\* grown by total_amount and loyalty_points by floor(total_amount / 10); a
\* payment other than debt leaves the customer's debt unchanged.
C16_SpentAndPoints ==
    [][(IsProcessSale /\ last'.outcome = "ok" /\ Tx.customer # NoCustomer) =>
          LET before == customers[Tx.customer]
              after == customers'[Tx.customer]
              earned == after.loyalty_points - before.loyalty_points
          IN  /\ after.total_spent = before.total_spent + Tx.total_amount
              /\ earned * 10 * Tenth <= Tx.total_amount
              /\ Tx.total_amount < (earned + 1) * 10 * Tenth
              /\ Tx.payment_method # "debt" => after.debt = before.debt]_vars

\* a cash sale of 25.50 has completed for a customer who owed 10.00: two
\* points earned, the debt as before
C16_Witness ==
    /\ last.op = "process_sale"
    /\ last.outcome = "ok"
    /\ txns[last.request].payment_method = "cash"
    /\ txns[last.request].customer # NoCustomer
    /\ txns[last.request].total_amount = 255
    /\ customers[txns[last.request].customer] =
           [debt |-> 10 * Tenth, total_spent |-> 10 * Tenth + 255, loyalty_points |-> 3]

\* C17: a transaction's status moves from pending to completed only in a
\* successful process_sale of that transaction, and a completed transaction
\* never becomes pending again, whatever operation follows.
C17_StatusTransitions ==
    [][\A t \in 1 .. Len(txns) :
          /\ (txns[t].status = "pending" /\ txns'[t].status = "completed") =>
                (IsProcessSale /\ last'.request = t /\ last'.outcome = "ok")
          /\ txns[t].status = "completed" => txns'[t].status = "completed"]_vars

\* a transaction completed by process_sale has seen a later sale of stock
C17_Witness ==
    /\ last.op = "Stock.sell"
    /\ last.outcome = "ok"
    /\ txns # <<>>
    /\ txns[1].status = "completed"

\* C18: a customer's debt, total_spent and loyalty_points change only in a
\* process_sale that ends with the transaction completed; when process_sale
\* fails and the transaction stays pending they are as before the call.
C18_CustomerFrame ==
    [][customers' # customers =>
          /\ IsProcessSale
          /\ last'.outcome = "ok"
          /\ txns'[last'.request].status = "completed"]_vars

\* C28: with no other request between validation and processing, a sale that
\* TransactionSerializer.validate accepts never fails in process_sale for
\* insufficient stock, also when two of its lines are of one product.
C28_AcceptedSaleHasStock ==
    [][(/\ IsProcessSale
        /\ Tx.status = "pending"
        /\ ValidateItems(Tx.items, stock)) =>
          last'.outcome # "InsufficientStock"]_vars

\* ------------------------------------------------------------------------
\* Properties of concurrent sells (specification SpecConc)
\* ------------------------------------------------------------------------
RECURSIVE SoldTotal(_)
SoldTotal(rs) ==
    IF rs = {} THEN 0
    ELSE LET r == CHOOSE x \in rs : TRUE
         IN  (IF reqs[r].outcome = "ok" THEN reqs[r].quantity ELSE 0)
             + SoldTotal(rs \ {r})

AllFinished == \A r \in Requests : reqs[r].pc \in {"done", "failed"}

\* C29: Stock.sell on a product, whether it succeeds or fails, leaves the
\* Stock.quantity and the batches of every other product unchanged, so two
\* concurrent sells of different products end, however their steps
\* interleave, in the state that running them one after the other gives.
C29_OtherProductsUntouched ==
    /\ [][\A r \in Requests :
             reqs'[r] # reqs[r] =>
                 \A p \in Products \ {reqs[r].product} :
                     batches'[p] = batches[p] /\ stock'[p] = stock[p]]_vars
    /\ [](AllFinished =>
             \A r \in Requests :
                 LET p == reqs[r].product
                     alone == StockSellResult(unitDp[p], reqs[r].initial,
                                              reqs[r].before, reqs[r].quantity)
                 IN  /\ reqs[r].outcome = alone.outcome
                     /\ batches[p] = alone.batches
                     /\ stock[p] = alone.stock)

\* a sell of 2 of p1 and a sell of 1 of p2 have both been made, the second
\* having started while the first was under way
C29_Witness ==
    /\ AllFinished
    /\ reqs[1].product = "p1" /\ reqs[2].product = "p2"
    /\ reqs[1].outcome = "ok" /\ reqs[1].quantity = 2 * One
    /\ reqs[2].outcome = "ok" /\ reqs[2].quantity = One
    /\ reqs[2].overlapped
    /\ stock["p1"] = reqs[1].before - 2 * One
    /\ stock["p2"] = reqs[2].before - One

\* C30: when two debt sales of one customer are processed concurrently and
\* both complete, the customer's debt has grown by the sum of both totals,
\* and total_spent and loyalty_points have grown by both sales.
C30_NoLostUpdate ==
    (\A t \in DebtSales : txns[t].status = "completed") =>
        LET c == customers[DebtCustomer]
            was == reqs[1].before
        IN  /\ c.debt = was.debt + txns[1].total_amount + txns[2].total_amount
            /\ c.total_spent =
                   was.total_spent + txns[1].total_amount + txns[2].total_amount
            /\ c.loyalty_points =
                   was.loyalty_points + LoyaltyPoints(txns[1].total_amount)
                                      + LoyaltyPoints(txns[2].total_amount)

\* C2: however the steps of two sells of one product interleave, no batch
\* quantity becomes negative and the requests that succeed sell, in total, no
\* more than the stock that was available before them.
C2_ConcurrentSellsSerialised ==
    /\ \A i \in 1 .. Len(batches[ConcProduct]) : batches[ConcProduct][i].quantity >= 0
    /\ (reqs # <<>> /\ AllFinished) =>
           \A r \in Requests : SoldTotal(Requests) <= reqs[r].before

====
